---- MODULE Spec2Model ----
(***************************************************************************)
(* Model of the Arabic book helper client: src/src/App.tsx (the App        *)
(* component: handleFileUpload, loadNextPage and the render conditions     *)
(* that mount the file input and the next-page button) and                 *)
(* src/unnamed/part_000 (types.ts and services/geminiService.ts:           *)
(* processArabicPdf).                                                      *)
(*                                                                         *)
(* Encoding of JavaScript values.                                          *)
(*  - A nullable React state (result, currentPdfBase64, error) is None     *)
(*    (null) or Some(v).                                                   *)
(*  - A JSON object is a function from the field names it has to their     *)
(*    values; a field the object lacks is not in its DOMAIN, so that {}    *)
(*    is the function with the empty domain.  A field holding undefined    *)
(*    reads like a field that is missing and is modelled as missing.       *)
(*  - A number is an integer or NaN.                                       *)
(*  - A string made by the browser (data URL, base64 text) is a sequence.  *)
(***************************************************************************)
EXTENDS Integers, Sequences, FiniteSets, TLC

(* ---------------------------- bounds ----------------------------------- *)
\* longest content array of one reply of the service
MaxPageLen == 2
\* page requests (first page and next pages) issued in one run
MaxFetches == 2

(* ------------------------- JavaScript values --------------------------- *)
None == <<>>
Some(v) == <<v>>

\* the number NaN (undefined + 1); every real page number is >= 0
NaN == -1

\* x + 1 on JavaScript numbers, x read from a field that may be missing
PlusOne(obj, field) ==
    IF field \notin DOMAIN obj THEN NaN
    ELSE IF obj[field] = NaN THEN NaN
    ELSE obj[field] + 1

Restrict(f, D) == [k \in D |-> f[k]]

RECURSIVE SeqsUpTo(_, _)
SeqsUpTo(S, n) ==
    IF n = 0 THEN {<<>>}
    ELSE LET shorter == SeqsUpTo(S, n - 1)
         IN  shorter \cup {Append(s, e) : s \in {t \in shorter : Len(t) = n - 1}, e \in S}

IsPrefix(s, t) == Len(s) <= Len(t) /\ SubSeq(t, 1, Len(s)) = s

RemoveAt(s, i) == SubSeq(s, 1, i - 1) \o SubSeq(s, i + 1, Len(s))

(* ------------------------------ types ---------------------------------- *)
\* TranslationPair: arabic, english, optional numberPronunciation
TranslationPair ==
    { [arabic |-> "alif", english |-> "a"],
      [arabic |-> "ba", english |-> "b", numberPronunciation |-> "wahid"] }

\* the currentPage values the service puts in a reply: the first page or a later one
ReplyPageNumbers == {1, 2}

ProcessingResultFields == {"title", "author", "content", "currentPage", "hasMore"}

\* the fields a reply can have: any of the three required fields may be
\* missing; the optional title and author of the book come together or not
ReplyDomains ==
    { D \in SUBSET ProcessingResultFields : ("title" \in D) = ("author" \in D) }

\* every JSON object the service can put in a reply: each field it has with a
\* value of its declared type
FullResults ==
    [ title : {"Kitab"}, author : {"Katib"},
      content : SeqsUpTo(TranslationPair, MaxPageLen),
      currentPage : ReplyPageNumbers, hasMore : BOOLEAN ]

JsonObjects == { Restrict(r, D) : r \in FullResults, D \in ReplyDomains }

(* ------------------------------ files ---------------------------------- *)
PdfType == "application/pdf"

\* the files the user can select: declared media type and bytes
\* (a change event that carries no file returns at once and changes nothing)
Files ==
    { [type |-> PdfType, bytes |-> <<>>],
      [type |-> PdfType, bytes |-> <<37, 80, 68, 70>>],
      [type |-> "text/plain", bytes |-> <<104, 105>>] }

\* base64 text of a byte sequence: a sequence of sextets, 64 for the pad '='
RECURSIVE Base64(_)
Base64(b) ==
    IF Len(b) = 0 THEN <<>>
    ELSE IF Len(b) = 1 THEN << b[1] \div 4, (b[1] % 4) * 16, 64, 64 >>
    ELSE IF Len(b) = 2 THEN
        << b[1] \div 4, (b[1] % 4) * 16 + (b[2] \div 16), (b[2] % 16) * 4, 64 >>
    ELSE << b[1] \div 4, (b[1] % 4) * 16 + (b[2] \div 16),
            (b[2] % 16) * 4 + (b[3] \div 64), b[3] % 64 >>
         \o Base64(SubSeq(b, 4, Len(b)))

\* FileReader.readAsDataURL: "data:<type>;base64,<payload>", kept as the
\* parts that the comma separates
ReadAsDataURL(file) == << <<"data:", file.type, ";base64">>, Base64(file.bytes) >>

\* (e.target.result as string).split(',')[1]
Base64Data(dataUrl) == dataUrl[2]

\* !currentPdfBase64: null and the empty string are falsy
DocFalsy(doc) == doc = None \/ doc[1] = <<>>

(* ---------------------------- the service ------------------------------ *)
\* what generateContent can do: reject, or resolve with a response whose
\* text is empty (undefined or ""), is not JSON, or is a JSON object
ServiceReplies ==
    { [status |-> "rejected"] }
    \cup { [status |-> "resolved", text |-> [kind |-> "empty"]] }
    \cup { [status |-> "resolved", text |-> [kind |-> "garbage"]] }
    \cup { [status |-> "resolved", text |-> [kind |-> "json", value |-> o]] : o \in JsonObjects }

\* response.text || "{}"
TextOrEmptyObject(text) ==
    IF text.kind = "empty" THEN [kind |-> "json", value |-> Restrict(<<>>, {})] ELSE text

\* JSON.parse: throws on a text that is not JSON
JsonParse(text) ==
    IF text.kind = "json" THEN [threw |-> FALSE, value |-> text.value]
    ELSE [threw |-> TRUE]

\* processArabicPdf: the awaited request, then the parse of its text
ProcessArabicPdf(reply) ==
    IF reply.status = "rejected" THEN [ok |-> FALSE, why |-> "request"]
    ELSE LET parsed == JsonParse(TextOrEmptyObject(reply.text))
         IN  IF parsed.threw THEN [ok |-> FALSE, why |-> "parse"]
             ELSE [ok |-> TRUE, data |-> parsed.value]

(* ------------------------------ state ---------------------------------- *)
VARIABLES
    isUploading, isLoadingNext, result, currentPdfBase64, error,
    crashed,      \* a render threw: React unmounted the component tree
    reads,        \* FileReader reads in progress
    fetches,      \* processArabicPdf calls awaiting the service
    issued,       \* page requests issued so far
    lastEvent,    \* the handler or continuation that ran last
    snap,         \* result and document as the last user event found them
    lastReturn,   \* request and value of the last processArabicPdf that returned
    failure,      \* the failure that occurred since the last accepted upload
    sessionFile   \* the file of the last accepted upload

state == <<isUploading, isLoadingNext, result, currentPdfBase64, error, crashed>>
vars == <<isUploading, isLoadingNext, result, currentPdfBase64, error, crashed,
          reads, fetches, issued, lastEvent, snap, lastReturn, failure, sessionFile>>

Init ==
    /\ isUploading = FALSE
    /\ isLoadingNext = FALSE
    /\ result = None
    /\ currentPdfBase64 = None
    /\ error = None
    /\ crashed = FALSE
    /\ reads = <<>>
    /\ fetches = <<>>
    /\ issued = 0
    /\ lastEvent = "init"
    /\ snap = [result |-> None, doc |-> None]
    /\ lastReturn = None
    /\ failure = "none"
    /\ sessionFile = None

(* ------------------------------ render --------------------------------- *)
\* result.content.map(...) throws when result has no content
RenderThrows(res) == res # None /\ "content" \notin DOMAIN res[1]

\* mutant: the file input stays mounted while an upload is in progress
FileInputMountedWhileUploading == ~crashed /\ result = None

\* {!result && !isUploading && (... <input type="file" onChange=... /> ...)}
FileInputMounted == ~crashed /\ result = None /\ ~isUploading

\* mutant: the next-page button is rendered whatever hasMore says
NextButtonAlwaysRendered ==
    /\ ~crashed
    /\ result # None
    /\ ~isLoadingNext

\* {result && ... {result.hasMore ? <button onClick={loadNextPage}
\*                                   disabled={isLoadingNext}> : ...}}
HasMoreTruthy(obj) == "hasMore" \in DOMAIN obj /\ obj.hasMore
NextButtonEnabled ==
    /\ ~crashed
    /\ result # None
    /\ HasMoreTruthy(result[1])
    /\ ~isLoadingNext

(* --------------------------- handleFileUpload -------------------------- *)
\* mutant: setError(null) is forgotten
HandleFileUploadAcceptedBodyKeepsError(file) ==
    /\ isUploading' = TRUE
    /\ result' = None
    /\ reads' = Append(reads, file)
    /\ UNCHANGED <<error, isLoadingNext, currentPdfBase64, crashed, fetches>>

\* a PDF: the three setState calls, then reader.readAsDataURL(file)
HandleFileUploadAcceptedBody(file) ==
    /\ isUploading' = TRUE
    /\ error' = None
    /\ result' = None
    /\ reads' = Append(reads, file)
    /\ UNCHANGED <<isLoadingNext, currentPdfBase64, crashed, fetches>>

\* mutant: the return after setError is forgotten, the handler goes on
HandleFileUploadRejectedGoesOn(file) ==
    /\ FileInputMounted
    /\ file.type # PdfType
    /\ HandleFileUploadAcceptedBody(file)
    /\ lastEvent' = "rejected"
    /\ snap' = [result |-> result, doc |-> currentPdfBase64]
    /\ UNCHANGED <<issued, lastReturn, failure, sessionFile>>

\* file.type !== 'application/pdf': setError and return
HandleFileUploadRejected(file) ==
    /\ FileInputMounted
    /\ file.type # PdfType
    /\ error' = Some("Please upload a PDF file.")
    /\ lastEvent' = "rejected"
    /\ snap' = [result |-> result, doc |-> currentPdfBase64]
    /\ UNCHANGED <<isUploading, isLoadingNext, result, currentPdfBase64, crashed>>
    /\ UNCHANGED <<reads, fetches, issued, lastReturn, failure, sessionFile>>

HandleFileUploadAccepted(file) ==
    /\ FileInputMounted
    /\ file.type = PdfType
    /\ issued < MaxFetches
    /\ HandleFileUploadAcceptedBody(file)
    /\ issued' = issued + 1
    /\ lastEvent' = "accepted"
    /\ snap' = [result |-> result, doc |-> currentPdfBase64]
    /\ failure' = "none"
    /\ sessionFile' = Some(file)
    /\ UNCHANGED lastReturn

\* reader.onload, up to the await: setCurrentPdfBase64 and the page 1 request
ReaderOnload(i) ==
    /\ i \in DOMAIN reads
    /\ LET base64Data == Base64Data(ReadAsDataURL(reads[i]))
       IN  /\ currentPdfBase64' = Some(base64Data)
           /\ fetches' = Append(fetches, [kind |-> "first", doc |-> base64Data, page |-> 1])
    /\ reads' = RemoveAt(reads, i)
    /\ lastEvent' = "onload"
    /\ UNCHANGED <<isUploading, isLoadingNext, result, error, crashed>>
    /\ UNCHANGED <<issued, snap, lastReturn, failure, sessionFile>>

\* the read fails: the reader fires its error event, which has no handler
\* (readAsDataURL reports a failed read by that event, not by throwing, so
\* the catch around it does not run)
ReaderError(i) ==
    /\ i \in DOMAIN reads
    /\ reads' = RemoveAt(reads, i)
    /\ lastEvent' = "readError"
    /\ failure' = "read"
    /\ UNCHANGED state
    /\ UNCHANGED <<fetches, issued, snap, lastReturn, sessionFile>>

\* reader.onload after the await, processArabicPdf returned: setResult(data),
\* finally setIsUploading(false); the render that follows may throw
FirstPageLoaded(i, reply) ==
    /\ i \in DOMAIN fetches
    /\ fetches[i].kind = "first"
    /\ LET out == ProcessArabicPdf(reply)
       IN  /\ out.ok
           /\ result' = Some(out.data)
           /\ lastReturn' = Some([doc |-> fetches[i].doc, page |-> fetches[i].page,
                                  data |-> out.data])
    /\ isUploading' = FALSE
    /\ crashed' = (crashed \/ RenderThrows(result'))
    /\ fetches' = RemoveAt(fetches, i)
    /\ lastEvent' = "firstLoaded"
    /\ UNCHANGED <<isLoadingNext, currentPdfBase64, error>>
    /\ UNCHANGED <<reads, issued, snap, failure, sessionFile>>

\* processArabicPdf threw: setError, finally setIsUploading(false)
FirstPageFailed(i, reply) ==
    /\ i \in DOMAIN fetches
    /\ fetches[i].kind = "first"
    /\ LET out == ProcessArabicPdf(reply)
       IN  /\ ~out.ok
           /\ failure' = out.why
    /\ error' = Some("Failed to process the PDF. Please try again.")
    /\ isUploading' = FALSE
    /\ fetches' = RemoveAt(fetches, i)
    /\ lastEvent' = "firstFailed"
    /\ UNCHANGED <<isLoadingNext, result, currentPdfBase64, crashed>>
    /\ UNCHANGED <<reads, issued, snap, lastReturn, sessionFile>>

(* ----------------------------- loadNextPage ---------------------------- *)
\* mutant: the new page is put before the pages already held
MergePageNewFirst(prev, nextData, nextPage) ==
    [ k \in DOMAIN nextData \cup {"content", "currentPage"} |->
        IF k = "content" THEN nextData.content \o prev.content
        ELSE IF k = "currentPage" THEN nextPage
        ELSE nextData[k] ]

\* mutant: the new page replaces the pages already held
MergePageReplaces(prev, nextData, nextPage) ==
    [ k \in DOMAIN nextData \cup {"content", "currentPage"} |->
        IF k = "content" THEN nextData.content
        ELSE IF k = "currentPage" THEN nextPage
        ELSE nextData[k] ]

\* { ...nextData, content: [...prev.content, ...nextData.content],
\*   currentPage: nextPage, hasMore: nextData.hasMore }
MergePage(prev, nextData, nextPage) ==
    [ k \in DOMAIN nextData \cup {"content", "currentPage"} |->
        IF k = "content" THEN prev.content \o nextData.content
        ELSE IF k = "currentPage" THEN nextPage
        ELSE nextData[k] ]

\* spreading a content that is missing throws a TypeError
SpreadThrows(prev, nextData) ==
    "content" \notin DOMAIN prev \/ "content" \notin DOMAIN nextData

\* the updater given to setResult: prev => ...
SetResultUpdater(prev, nextData, nextPage) ==
    IF prev = None THEN [threw |-> FALSE, value |-> Some(nextData)]
    ELSE IF SpreadThrows(prev[1], nextData) THEN [threw |-> TRUE, value |-> prev]
    ELSE [threw |-> FALSE, value |-> Some(MergePage(prev[1], nextData, nextPage))]

\* the handler up to the await: the guard, setIsLoadingNext(true), the request
LoadNextPageBody ==
    IF result = None \/ DocFalsy(currentPdfBase64) \/ isLoadingNext
    THEN UNCHANGED <<isLoadingNext, fetches, issued>>
    ELSE /\ isLoadingNext' = TRUE
         /\ fetches' = Append(fetches, [kind |-> "next", doc |-> currentPdfBase64[1],
                                        page |-> PlusOne(result[1], "currentPage")])
         /\ issued' = issued + 1

\* a click on the next-page button
LoadNextPage ==
    /\ NextButtonEnabled
    /\ issued < MaxFetches
    /\ LoadNextPageBody
    /\ lastEvent' = "click"
    /\ snap' = [result |-> result, doc |-> currentPdfBase64]
    /\ UNCHANGED <<isUploading, result, currentPdfBase64, error, crashed>>
    /\ UNCHANGED <<reads, lastReturn, failure, sessionFile>>

\* after the await, processArabicPdf returned: setResult(prev => ...), finally
\* setIsLoadingNext(false).  React runs the updater while rendering, outside
\* the handler's try: an updater or a render that throws unmounts the tree.
NextPageLoaded(i, reply) ==
    /\ i \in DOMAIN fetches
    /\ fetches[i].kind = "next"
    /\ LET out == ProcessArabicPdf(reply)
       IN  /\ out.ok
           /\ LET upd == SetResultUpdater(result, out.data, fetches[i].page)
              IN  /\ result' = upd.value
                  /\ crashed' = (crashed \/ upd.threw \/ RenderThrows(upd.value))
           /\ lastReturn' = Some([doc |-> fetches[i].doc, page |-> fetches[i].page,
                                  data |-> out.data])
    /\ isLoadingNext' = FALSE
    /\ fetches' = RemoveAt(fetches, i)
    /\ lastEvent' = "nextLoaded"
    /\ UNCHANGED <<isUploading, currentPdfBase64, error>>
    /\ UNCHANGED <<reads, issued, snap, failure, sessionFile>>

\* mutant: the catch also drops the result
NextPageFailedDropsResult(i, reply) ==
    /\ i \in DOMAIN fetches
    /\ fetches[i].kind = "next"
    /\ LET out == ProcessArabicPdf(reply)
       IN  /\ ~out.ok
           /\ failure' = out.why
    /\ error' = Some("Failed to load the next page.")
    /\ result' = None
    /\ isLoadingNext' = FALSE
    /\ fetches' = RemoveAt(fetches, i)
    /\ lastEvent' = "nextFailed"
    /\ UNCHANGED <<isUploading, currentPdfBase64, crashed>>
    /\ UNCHANGED <<reads, issued, snap, lastReturn, sessionFile>>

\* processArabicPdf threw: setError, finally setIsLoadingNext(false)
NextPageFailed(i, reply) ==
    /\ i \in DOMAIN fetches
    /\ fetches[i].kind = "next"
    /\ LET out == ProcessArabicPdf(reply)
       IN  /\ ~out.ok
           /\ failure' = out.why
    /\ error' = Some("Failed to load the next page.")
    /\ isLoadingNext' = FALSE
    /\ fetches' = RemoveAt(fetches, i)
    /\ lastEvent' = "nextFailed"
    /\ UNCHANGED <<isUploading, result, currentPdfBase64, crashed>>
    /\ UNCHANGED <<reads, issued, snap, lastReturn, sessionFile>>

Next ==
    \/ \E file \in Files : HandleFileUploadRejected(file)
    \/ \E file \in Files : HandleFileUploadAccepted(file)
    \/ \E i \in DOMAIN reads : ReaderOnload(i)
    \/ \E i \in DOMAIN reads : ReaderError(i)
    \/ \E i \in DOMAIN fetches : \E reply \in ServiceReplies : FirstPageLoaded(i, reply)
    \/ \E i \in DOMAIN fetches : \E reply \in ServiceReplies : FirstPageFailed(i, reply)
    \/ LoadNextPage
    \/ \E i \in DOMAIN fetches : \E reply \in ServiceReplies : NextPageLoaded(i, reply)
    \/ \E i \in DOMAIN fetches : \E reply \in ServiceReplies : NextPageFailed(i, reply)

Spec == Init /\ [][Next]_vars

\* a started file read ends, and a request sent to the service is answered:
\* the browser delivers every completion to the continuation that awaits it
ReadCompletes == \E i \in DOMAIN reads : ReaderOnload(i) \/ ReaderError(i)
FetchCompletes ==
    \E i \in DOMAIN fetches : \E reply \in ServiceReplies :
        \/ FirstPageLoaded(i, reply) \/ FirstPageFailed(i, reply)
        \/ NextPageLoaded(i, reply) \/ NextPageFailed(i, reply)

FairSpec == Spec /\ WF_vars(ReadCompletes) /\ WF_vars(FetchCompletes)

(* ============================== claims ================================= *)
\* the declared shape: content, currentPage and hasMore are present
HasDeclaredShape(obj) == {"content", "currentPage", "hasMore"} \subseteq DOMAIN obj

\* the step is the continuation of loadNextPage storing a merged page
MergeStep ==
    /\ lastEvent' = "nextLoaded"
    /\ Len(fetches') < Len(fetches)
    /\ result # None
    /\ ~crashed'

\* C1: a successful next-page load stores a content of length m+n that is the
\* previous content (length m) followed by the new page's content (length n),
\* entry by entry in the order each had.
C1_MergeIsConcatenation ==
    [][ MergeStep =>
          LET prev == result[1].content
              page == lastReturn'[1].data.content
              got == result'[1].content
          IN  /\ Len(got) = Len(prev) + Len(page)
              /\ \A k \in 1..Len(prev) : got[k] = prev[k]
              /\ \A k \in 1..Len(page) : got[Len(prev) + k] = page[k] ]_vars

C1_Witness ==
    /\ lastEvent = "nextLoaded"
    /\ ~crashed
    /\ Len(snap.result[1].content) = 2
    /\ Len(lastReturn[1].data.content) = 2
    /\ snap.result[1].content[1] # snap.result[1].content[2]
    /\ lastReturn[1].data.content # snap.result[1].content
    /\ Len(result[1].content) = 4

\* C2: the value a successful processArabicPdf returns has the currentPage
\* that was requested (stated for replies of the declared shape).
C2_ReturnedPageIsRequested ==
    (lastReturn # None /\ HasDeclaredShape(lastReturn[1].data))
        => lastReturn[1].data.currentPage = lastReturn[1].page

\* C3: content is append-only: in every step that is not an accepted upload,
\* a result with content is followed by a result whose content extends it.
C3_ContentAppendOnly ==
    [][ (lastEvent' # "accepted" /\ result # None /\ "content" \in DOMAIN result[1])
          => /\ result' # None
             /\ "content" \in DOMAIN result'[1]
             /\ IsPrefix(result[1].content, result'[1].content) ]_vars

C3_Witness ==
    /\ lastEvent = "nextLoaded"
    /\ ~crashed
    /\ Len(snap.result[1].content) > 0
    /\ Len(result[1].content) > Len(snap.result[1].content)

C5_FailureKeepsSession ==
    lastEvent = "nextFailed" =>
        /\ result = snap.result
        /\ currentPdfBase64 = snap.doc

C5_Witness ==
    /\ lastEvent = "nextFailed"
    /\ failure = "parse"
    /\ result # None
    /\ Len(result[1].content) = 2
    /\ error = Some("Failed to load the next page.")

\* C6: selecting a file that is not a PDF sets the unsupported-type error and
\* starts no file read and no page request, and sets no pending flag.
C6_RejectStartsNothing ==
    [][ lastEvent' = "rejected" =>
          /\ error' = Some("Please upload a PDF file.")
          /\ reads' = reads
          /\ fetches' = fetches
          /\ issued' = issued
          /\ isUploading' = isUploading
          /\ isLoadingNext' = isLoadingNext ]_vars

C6_Witness ==
    /\ lastEvent = "rejected"
    /\ error = Some("Please upload a PDF file.")
    /\ reads = <<>>
    /\ fetches = <<>>
    /\ currentPdfBase64 # None

\* C7: every failure (of the file read, of a request, of the parse of a
\* reply) leads to a state where the error is set.
C7_FailureLeadsToError == (failure # "none") ~> (error # None)

\* C8: the session result always has the declared shape: a reply that is
\* empty or lacks a required field never becomes the result.
C8_ResultHasDeclaredShape == result # None => HasDeclaredShape(result[1])

\* C9: every outstanding next-page request was issued for a result whose
\* hasMore is true; none is issued once hasMore is false.
C9_NoFetchAfterEnd ==
    \A i \in DOMAIN fetches :
        fetches[i].kind = "next" => (result # None /\ HasMoreTruthy(result[1]))

C9_Witness ==
    /\ lastEvent = "nextLoaded"
    /\ result # None
    /\ HasDeclaredShape(result[1])
    /\ Len(result[1].content) = 2
    /\ result[1].currentPage = 2
    /\ result[1].hasMore = FALSE
    /\ snap.result[1].hasMore = TRUE
    /\ fetches = <<>>
    /\ ~NextButtonEnabled

\* the encoding of the file of the session
SessionDoc == Base64Data(ReadAsDataURL(sessionFile[1]))

\* C10 as claimed: right after an accepted upload result and error are absent,
\* the next-page flag is clear and the document held before is held no more.
C10_UploadResetsAll ==
    lastEvent = "accepted" =>
        /\ result = None
        /\ error = None
        /\ ~isLoadingNext
        /\ (snap.doc # None => currentPdfBase64 # snap.doc)

\* C10 amended: right after an accepted upload result and error are absent and
\* the next-page flag is clear, while the document held before stays until the
\* read of the new file completes; every page request of the session carries
\* the new file's encoding, and so does the request a result came from.
C10_UploadResets ==
    /\ lastEvent = "accepted" =>
        /\ result = None
        /\ error = None
        /\ ~isLoadingNext
        /\ currentPdfBase64 = snap.doc
    /\ \A i \in DOMAIN fetches : fetches[i].doc = SessionDoc
    /\ result # None =>
        /\ lastReturn[1].doc = SessionDoc
        /\ currentPdfBase64 = Some(SessionDoc)

C10_Witness ==
    /\ lastEvent = "accepted"
    /\ snap.doc # None
    /\ snap.doc # Some(SessionDoc)
    /\ currentPdfBase64 = snap.doc
    /\ reads # <<>>
====
